---- MODULE Spec2Model ----
(***************************************************************************)
(* Model of src/classes.py: CircuitSimulator, Voltmeter, Ammeter,          *)
(* Ohmmeter, RollingAverageOhmmeter and Application.run.                   *)
(*                                                                         *)
(* Units.  One unit of time is 0.1 s (the greatest common divisor of the   *)
(* sampler intervals 0.1 s, 0.3 s, the estimator interval 1.0 s, the 2 s   *)
(* window and the 10 s run).  Resistances are in kOhm, voltages in V and   *)
(* therefore currents in mA.  time.time() and the event loop's clock are   *)
(* the single variable now; the synchronous body of one tick takes no      *)
(* time at this resolution, and a sleep ends exactly interval after it     *)
(* began (the drift of a real run is below the resolution).                *)
(*                                                                         *)
(* Numbers.  A Python value is a record [t, n, d]: None, +inf, or the      *)
(* number n/d in lowest terms with d > 0.  Arithmetic is exact rational    *)
(* arithmetic, except that the quotient voltage / current of the two       *)
(* estimators is rounded down to a multiple of 1/Resolution (floats round  *)
(* too; exact quotients of readings taken at different instants do not     *)
(* fit TLC's 32 bit integers once they are summed).  Division by zero      *)
(* raises, as Python's float and int division do.                          *)
(*                                                                         *)
(* Scheduling.  asyncio runs one task step at a time.  A step of a         *)
(* periodic task is one iteration of its "while True" loop up to the       *)
(* await asyncio.sleep(...): it is one action here.  Which of several      *)
(* tasks that are ready at the same instant runs first is left open: the   *)
(* classes fix no order, and the order a given event loop uses (creation   *)
(* order for the first steps, timer order afterwards, with ties at the     *)
(* clock's resolution) is one of those explored.                           *)
(***************************************************************************)
EXTENDS Integers, Sequences, FiniteSets

\* ------------------------------------------------------------------ bounds

\* time.time() at the moment Application.run is called is in 0..MaxEpoch.
MaxEpoch == 1
\* voltage / current is rounded down to a multiple of 1/Resolution kOhm.
Resolution == 1000

\* ------------------------------------------------- program constants

\* CircuitSimulator.__init__ defaults (kOhm, V, units of 0.1 s).
R1_START == 0
R1_END == 100
R2_START == 100
R2_END == 0
RL_DEFAULT == 30
VS_DEFAULT == 10
DURATION == 100
\* interval defaults of Voltmeter, Ammeter and Ohmmeter (units of 0.1 s).
VOLTMETER_INTERVAL == 1
AMMETER_INTERVAL == 3
OHMMETER_INTERVAL == 10
\* the rolling window, "time.time() - t <= 2".
WINDOW == 20
\* Application.run: "await asyncio.sleep(10)".
RUN_SLEEP == 100

\* ------------------------------------------------------- Python values

None == [t |-> "None", n |-> 0, d |-> 1]
Inf == [t |-> "inf", n |-> 0, d |-> 1]

\* every Python value of the model
PyValue == [t : {"None", "inf", "num"}, n : Int, d : Int]

Abs(x) == IF x < 0 THEN -x ELSE x

\* The arithmetic is written as functions, which TLC applies to values: an
\* operator's argument is an expression TLC may evaluate again at every use.
gcd[a \in Nat, b \in Nat] == IF b = 0 THEN a ELSE gcd[b, a % b]

rat[n \in Int, d \in Int] ==
    LET g == gcd[Abs(n), Abs(d)]
        s == IF d < 0 THEN -1 ELSE 1
    IN  [t |-> "num", n |-> (s * n) \div g, d |-> (s * d) \div g]

\* the number n/d (d # 0) in lowest terms
Rat(n, d) == rat[n, d]

Num(i) == [t |-> "num", n |-> i, d |-> 1]

IsNum(x) == x.t = "num"
IsZero(x) == x.t = "num" /\ x.n = 0

add[a \in PyValue, b \in PyValue] ==
    IF a.t = "inf" \/ b.t = "inf" THEN Inf
    ELSE Rat(a.n * b.d + b.n * a.d, a.d * b.d)

sub[a \in PyValue, b \in PyValue] == Rat(a.n * b.d - b.n * a.d, a.d * b.d)

mul[a \in PyValue, b \in PyValue] == Rat(a.n * b.n, a.d * b.d)

div[a \in PyValue, b \in PyValue] ==
    IF a.t = "inf" THEN Inf
    ELSE Rat(a.n * b.d, a.d * b.n)

\* float arithmetic on numbers and +inf (no operand is None here);
\* Div(a, b) is a / b for b # 0
Add(a, b) == add[a, b]
Sub(a, b) == sub[a, b]
Mul(a, b) == mul[a, b]
Div(a, b) == div[a, b]

round[x \in PyValue] ==
    LET q == x.n \div x.d
        r == x.n % x.d
    IN  Add(Num(q), Rat((r * Resolution) \div x.d, Resolution))

\* a number rounded down to a multiple of 1/Resolution
Round(x) == round[x]

\* ----------------------------------------------------- CircuitSimulator

\* CircuitSimulator.__init__ with its default arguments
DefaultSimulator ==
    [R1_start |-> R1_START, R1_end |-> R1_END,
     R2_start |-> R2_START, R2_end |-> R2_END,
     RL |-> RL_DEFAULT, VS |-> VS_DEFAULT, duration |-> DURATION,
     start_time |-> None]

\* R2 interpolated over R1's span
get_resistance_r1_span(sim, current_time) ==
    LET elapsed_time == Sub(Num(current_time), sim.start_time)
        frac == Div(elapsed_time, Num(sim.duration))
    IN  [R1 |-> Add(Num(sim.R1_start),
                    Mul(Num(sim.R1_end - sim.R1_start), frac)),
         R2 |-> Add(Num(sim.R2_start),
                    Mul(Num(sim.R1_end - sim.R1_start), frac))]

\* get_resistance(current_time): (R1, R2) by linear interpolation
get_resistance(sim, current_time) ==
    LET elapsed_time == Sub(Num(current_time), sim.start_time)
        frac == Div(elapsed_time, Num(sim.duration))
    IN  [R1 |-> Add(Num(sim.R1_start),
                    Mul(Num(sim.R1_end - sim.R1_start), frac)),
         R2 |-> Add(Num(sim.R2_start),
                    Mul(Num(sim.R2_end - sim.R2_start), frac))]

\* the denominator without its R1 * RL / R2 term
get_values_series(sim, current_time) ==
    LET r == get_resistance(sim, current_time)
        RLv == Num(sim.RL)
    IN  IF sim.start_time = None
        THEN [exc |-> "TypeError", V |-> None, IL |-> None]
        ELSE IF IsZero(r.R2)
        THEN [exc |-> "ZeroDivisionError", V |-> None, IL |-> None]
        ELSE LET den == Add(r.R1, RLv)
             IN  IF IsZero(den)
                 THEN [exc |-> "ZeroDivisionError", V |-> None, IL |-> None]
                 ELSE LET IL == Div(Num(sim.VS), den)
                      IN  [exc |-> "", V |-> Mul(IL, RLv), IL |-> IL]

\* get_values(current_time): (V, IL, current_time); ZeroDivisionError when
\* R2 or the whole denominator is zero, TypeError when start_time is None
get_values(sim, current_time) ==
    LET r == get_resistance(sim, current_time)
        RLv == Num(sim.RL)
    IN  IF sim.start_time = None
        THEN [exc |-> "TypeError", V |-> None, IL |-> None]
        ELSE IF IsZero(r.R2)
        THEN [exc |-> "ZeroDivisionError", V |-> None, IL |-> None]
        ELSE LET den == Add(Add(r.R1, RLv), Div(Mul(r.R1, RLv), r.R2))
             IN  IF IsZero(den)
                 THEN [exc |-> "ZeroDivisionError", V |-> None, IL |-> None]
                 ELSE LET IL == Div(Num(sim.VS), den)
                      IN  [exc |-> "", V |-> Mul(IL, RLv), IL |-> IL]

\* ---------------------------------------------------------------- state

Voltmeter == "Voltmeter"
Ammeter == "Ammeter"
Ohmmeter == "Ohmmeter"
RollingAverageOhmmeter == "RollingAverageOhmmeter"
\* the devices whose start() Application.run turns into tasks
Devices == {Voltmeter, Ammeter, Ohmmeter, RollingAverageOhmmeter}

VARIABLES
    now,        \* time.time(), in units of 0.1 s
    simulator,  \* the CircuitSimulator's fields
    voltmeter,  \* Voltmeter: last_value, last_timestamp
    ammeter,    \* Ammeter: last_value, last_timestamp
    ohmmeter,   \* Ohmmeter: voltage, current, last_timestamp
    rolling,    \* RollingAverageOhmmeter: voltage, current, last_timestamp, values
    tasks,      \* the four asyncio tasks of Application.run
    app,        \* Application.run: where it is, when its sleep ends, what it raised
    ev          \* what the last step did and the log line it printed, if any

vars == <<now, simulator, voltmeter, ammeter, ohmmeter, rolling, tasks, app, ev>>

NoTask == [st |-> "none", wake |-> 0, must_cancel |-> FALSE, result |-> ""]

Event(who, kind, line, val) ==
    [who |-> who, kind |-> kind, line |-> line, val |-> val]

\* Application.__init__: the simulator and the four devices, nothing started
Construct(sim) ==
    /\ simulator = sim
    /\ voltmeter = [last_value |-> None, last_timestamp |-> None]
    /\ ammeter = [last_value |-> None, last_timestamp |-> None]
    /\ ohmmeter = [voltage |-> None, current |-> None, last_timestamp |-> None]
    /\ rolling = [voltage |-> None, current |-> None, last_timestamp |-> None,
                  values |-> <<>>]
    /\ tasks = [x \in Devices |-> NoTask]
    /\ app = [pc |-> "created", wake |-> 0, raised |-> ""]
    /\ ev = Event("Application", "init", FALSE, None)

Init ==
    /\ now \in 0..MaxEpoch
    /\ Construct(DefaultSimulator)

\* ------------------------------------------------------ the task steps

Task(x) == tasks[x]

\* a task's step can run: its coroutine is pending, its sleep (if any) has
\* expired, and no cancellation waits to be thrown into it
Runnable(x) ==
    /\ Task(x).st = "pending"
    /\ ~Task(x).must_cancel
    /\ Task(x).wake <= now

\* "await asyncio.sleep(interval)": the task is resumed interval later
Sleep(x, interval) == [tasks EXCEPT ![x].wake = now + interval]

\* an exception leaves start(): the task is done, holding the exception
Fail(x, exc) == [tasks EXCEPT ![x].st = "finished", ![x].result = exc]

\* a set_voltage that also forgets the current
set_voltage_resetting(self, value) ==
    [self EXCEPT !.voltage = value, !.current = None]

\* Ohmmeter.set_voltage
set_voltage(self, value) == [self EXCEPT !.voltage = value]

\* a set_current that unsets the voltage
set_current_unsetting(self, value) ==
    [self EXCEPT !.current = value, !.voltage = None]

\* a set_current that stores nothing
set_current_dropped(self, value) == self

\* Ohmmeter.set_current
set_current(self, value) == [self EXCEPT !.current = value]

\* the pair returned the wrong way round
get_last_value_swapped(self) == <<self.last_timestamp, self.last_value>>

\* Voltmeter.get_last_value and Ammeter.get_last_value
get_last_value(self) == <<self.last_value, self.last_timestamp>>

\* a Voltmeter that forwards to the RollingAverageOhmmeter as well
VoltmeterTick_into_rolling ==
    /\ Runnable(Voltmeter)
    /\ LET r == get_values(simulator, now)
       IN  IF r.exc # ""
           THEN /\ tasks' = Fail(Voltmeter, r.exc)
                /\ ev' = Event(Voltmeter, "raise", FALSE, None)
                /\ UNCHANGED <<voltmeter, ohmmeter, rolling>>
           ELSE /\ voltmeter' = [last_value |-> r.V, last_timestamp |-> Num(now)]
                /\ ohmmeter' = set_voltage(ohmmeter, voltmeter'.last_value)
                /\ rolling' = set_voltage(rolling, voltmeter'.last_value)
                /\ tasks' = Sleep(Voltmeter, VOLTMETER_INTERVAL)
                /\ ev' = Event(Voltmeter, "tick", TRUE, r.V)
    /\ UNCHANGED <<now, simulator, ammeter, app>>

\* Voltmeter.start, one iteration of the loop
VoltmeterTick ==
    /\ Runnable(Voltmeter)
    /\ LET r == get_values(simulator, now)
       IN  IF r.exc # ""
           THEN /\ tasks' = Fail(Voltmeter, r.exc)
                /\ ev' = Event(Voltmeter, "raise", FALSE, None)
                /\ UNCHANGED <<voltmeter, ohmmeter>>
           ELSE /\ voltmeter' = [last_value |-> r.V, last_timestamp |-> Num(now)]
                /\ ohmmeter' = set_voltage(ohmmeter, voltmeter'.last_value)
                /\ tasks' = Sleep(Voltmeter, VOLTMETER_INTERVAL)
                /\ ev' = Event(Voltmeter, "tick", TRUE, r.V)
    /\ UNCHANGED <<now, simulator, ammeter, rolling, app>>

\* Ammeter.start, one iteration of the loop
AmmeterTick ==
    /\ Runnable(Ammeter)
    /\ LET r == get_values(simulator, now)
       IN  IF r.exc # ""
           THEN /\ tasks' = Fail(Ammeter, r.exc)
                /\ ev' = Event(Ammeter, "raise", FALSE, None)
                /\ UNCHANGED <<ammeter, ohmmeter>>
           ELSE /\ ammeter' = [last_value |-> r.IL, last_timestamp |-> Num(now)]
                /\ ohmmeter' = set_current(ohmmeter, ammeter'.last_value)
                /\ tasks' = Sleep(Ammeter, AMMETER_INTERVAL)
                /\ ev' = Event(Ammeter, "tick", TRUE, r.IL)
    /\ UNCHANGED <<now, simulator, voltmeter, rolling, app>>

\* the quotient without its "if I != 0" guard
resistance_unguarded(V, I) ==
    IF IsZero(I) THEN [exc |-> "ZeroDivisionError", R |-> None]
    ELSE IF ~IsNum(I) \/ ~IsNum(V) THEN [exc |-> "TypeError", R |-> None]
    ELSE [exc |-> "", R |-> Round(Div(V, I))]

\* "V / I if I != 0 else float('inf')": None != 0 holds, and a division
\* with None as an operand raises TypeError
resistance(V, I) ==
    IF IsZero(I) THEN [exc |-> "", R |-> Inf]
    ELSE IF ~IsNum(I) \/ ~IsNum(V) THEN [exc |-> "TypeError", R |-> None]
    ELSE [exc |-> "", R |-> Round(Div(V, I))]

\* "or" written for "and"
both_observed_or(self) == self.voltage # None \/ self.current # None

\* Ohmmeter.start: "if self.voltage is not None and self.current is not None"
both_observed(self) == self.voltage # None /\ self.current # None

\* Ohmmeter.start, one iteration of the loop
OhmmeterTick ==
    /\ Runnable(Ohmmeter)
    /\ IF both_observed(ohmmeter)
       THEN LET r == resistance(ohmmeter.voltage, ohmmeter.current)
            IN  IF r.exc # ""
                THEN /\ tasks' = Fail(Ohmmeter, r.exc)
                     /\ ev' = Event(Ohmmeter, "raise", FALSE, None)
                     /\ UNCHANGED ohmmeter
                ELSE /\ ohmmeter' = [ohmmeter EXCEPT !.last_timestamp = Num(now)]
                     /\ tasks' = Sleep(Ohmmeter, OHMMETER_INTERVAL)
                     /\ ev' = Event(Ohmmeter, "tick", TRUE, r.R)
       ELSE /\ tasks' = Sleep(Ohmmeter, OHMMETER_INTERVAL)
            /\ ev' = Event(Ohmmeter, "tick", FALSE, None)
            /\ UNCHANGED ohmmeter
    /\ UNCHANGED <<now, simulator, voltmeter, ammeter, rolling, app>>

\* every pull taken for a new reading, as if compared by its timestamp
changed_always(self, V, I) == TRUE

\* "if self.voltage != V or self.current != I"
changed(self, V, I) == self.voltage # V \/ self.current # I

\* a prune that drops nothing
prune_nothing(values, t_now) == values

\* "<" written for "<="
prune_strict(values, t_now) ==
    LET InWindow(e) == t_now - e.t < WINDOW
    IN  SelectSeq(values, InWindow)

\* "[(v, t) for v, t in self.values if time.time() - t <= 2]"
prune(values, t_now) ==
    LET InWindow(e) == t_now - e.t <= WINDOW
    IN  SelectSeq(values, InWindow)

RECURSIVE SumValues(_)
\* "sum(v for v, t in self.values)"
SumValues(values) ==
    IF values = <<>> THEN Num(0)
    ELSE Add(SumValues(Tail(values)), Head(values).v)

\* the sum divided by one more than the count
average_off_by_one(values) ==
    IF values # <<>> THEN Div(SumValues(values), Num(Len(values) + 1)) ELSE Inf

\* "sum(...) / len(self.values) if self.values else float('inf')"
average(values) ==
    IF values # <<>> THEN Div(SumValues(values), Num(Len(values))) ELSE Inf

\* RollingAverageOhmmeter.start, one iteration of the loop
RollingAverageOhmmeterTick ==
    /\ Runnable(RollingAverageOhmmeter)
    /\ LET V == get_last_value(voltmeter)[1]
           I == get_last_value(ammeter)[1]
           upd == changed(rolling, V, I)
           r == resistance(V, I)
       IN  IF upd /\ r.exc # ""
           THEN /\ tasks' = Fail(RollingAverageOhmmeter, r.exc)
                /\ ev' = Event(RollingAverageOhmmeter, "raise", FALSE, None)
                /\ UNCHANGED rolling
           ELSE LET appended ==
                        IF upd
                        THEN [rolling EXCEPT
                                !.values = Append(@, [v |-> r.R, t |-> now]),
                                !.voltage = V, !.current = I]
                        ELSE rolling
                    kept == prune(appended.values, now)
                IN  /\ rolling' = [appended EXCEPT !.values = kept]
                    /\ tasks' = Sleep(RollingAverageOhmmeter, OHMMETER_INTERVAL)
                    /\ ev' = Event(RollingAverageOhmmeter, "tick", TRUE,
                                   average(kept))
    /\ UNCHANGED <<now, simulator, voltmeter, ammeter, ohmmeter, app>>

\* ------------------------------------------------------ Application.run

\* a start that records no time
start_unrecorded(sim) == sim

\* CircuitSimulator.start
start(sim) == [sim EXCEPT !.start_time = Num(now)]

\* asyncio.create_task(t.start()): the task's first step is due at once
create_task == [st |-> "pending", wake |-> now, must_cancel |-> FALSE, result |-> ""]

\* run up to its "await asyncio.sleep(10)"
RunStart ==
    /\ app.pc = "created"
    /\ simulator' = start(simulator)
    /\ tasks' = [x \in Devices |-> create_task]
    /\ app' = [app EXCEPT !.pc = "sleeping", !.wake = now + RUN_SLEEP]
    /\ ev' = Event("Application", "start", FALSE, None)
    /\ UNCHANGED <<now, voltmeter, ammeter, ohmmeter, rolling>>

\* a cancel() that requests nothing
cancel_ignored(task) == task

\* task.cancel(): a task that is done is left alone; a pending one gets a
\* CancelledError thrown into it when the loop next runs it
cancel(task) ==
    IF task.st = "pending" THEN [task EXCEPT !.must_cancel = TRUE] ELSE task

\* "for task in tasks: task.cancel()", up to the await of gather
RunCancel ==
    /\ app.pc = "sleeping"
    /\ app.wake <= now
    /\ tasks' = [x \in Devices |-> cancel(tasks[x])]
    /\ app' = [app EXCEPT !.pc = "gathering"]
    /\ ev' = Event("Application", "cancel", FALSE, None)
    /\ UNCHANGED <<now, simulator, voltmeter, ammeter, ohmmeter, rolling>>

\* the loop resumes a cancelled task: CancelledError is raised at its
\* "await asyncio.sleep(...)" (or before its first step), nothing catches it
TaskCancelled(x) ==
    /\ Task(x).st = "pending"
    /\ Task(x).must_cancel
    /\ tasks' = [tasks EXCEPT ![x].st = "finished", ![x].result = "CancelledError",
                              ![x].must_cancel = FALSE]
    /\ ev' = Event(x, "cancelled", FALSE, None)
    /\ UNCHANGED <<now, simulator, voltmeter, ammeter, ohmmeter, rolling, app>>

\* gather without return_exceptions=True: a task's exception is raised
gather_raising(ts) ==
    LET bad == {x \in Devices : ts[x].result # ""}
    IN  IF bad = {} THEN "" ELSE ts[CHOOSE x \in bad : TRUE].result

\* "asyncio.gather(*tasks, return_exceptions=True)": what the await raises
\* in run once every task is done -- nothing, the exceptions are results
gather(ts) == ""

\* run returns (or raises) when gather's future is done
RunReturn ==
    /\ app.pc = "gathering"
    /\ \A x \in Devices : Task(x).st = "finished"
    /\ app' = [app EXCEPT !.pc = "returned", !.raised = gather(tasks)]
    /\ ev' = Event("Application", "return", FALSE, None)
    /\ UNCHANGED <<now, simulator, voltmeter, ammeter, ohmmeter, rolling, tasks>>

\* time passes while run sleeps and no expired sleep (a task's or run's
\* own) waits to be resumed
Advance ==
    /\ app.pc = "sleeping"
    /\ now < app.wake
    /\ \A x \in Devices : Task(x).st = "pending" => now < Task(x).wake
    /\ now' = now + 1
    /\ ev' = Event("clock", "advance", FALSE, None)
    /\ UNCHANGED <<simulator, voltmeter, ammeter, ohmmeter, rolling, tasks, app>>

Next ==
    \/ RunStart
    \/ VoltmeterTick
    \/ AmmeterTick
    \/ OhmmeterTick
    \/ RollingAverageOhmmeterTick
    \/ Advance
    \/ RunCancel
    \/ \E x \in Devices : TaskCancelled(x)
    \/ RunReturn

\* the application as shipped: Application() builds CircuitSimulator()
Spec == Init /\ [][Next]_vars

\* the event loop keeps running what is ready, and time passes
FairSpec == Spec /\ WF_vars(Next)

\* CircuitSimulator(...) built with other arguments: a dead source (VS = 0),
\* an R1 that stays at R1_start, an R2 that stays at R2_start
Simulators ==
    { [DefaultSimulator EXCEPT !.VS = vs, !.R1_end = r1, !.R2_end = r2] :
        vs \in {0, VS_DEFAULT}, r1 \in {R1_START, R1_END},
        r2 \in {R2_END, R2_START} }

InitParams ==
    /\ now \in 0..MaxEpoch
    /\ \E sim \in Simulators : Construct(sim)

\* the same application around a simulator built with other arguments
SpecParams == InitParams /\ [][Next]_vars

\* ------------------------------------------------------------ properties

Last(q) == q[Len(q)]

\* the last step was a completed iteration of x's loop
Ticked(x) == ev.who = x /\ ev.kind = "tick"

\* the last step was an iteration of x's loop, completed or ended by an
\* exception
Stepped(x) == ev.who = x /\ ev.kind \in {"tick", "raise"}

\* the step into the next state appended an entry to rolling.values
AppendedNow ==
    /\ rolling'.values # <<>>
    /\ Last(rolling'.values).t = now'
    /\ \A i \in DOMAIN rolling.values : rolling.values[i].t # now'

\* post is pre, or pre with post's newest entry appended, cut to the
\* entries of age at most WINDOW at time t
ExactlyTheWindow(pre, post, t) ==
    LET InWindow(e) == t - e.t <= WINDOW
        cands == {pre} \cup
                 {Append(pre, post[i]) :
                    i \in {j \in DOMAIN post : j = Len(post) /\ post[j].t = t}}
    IN  /\ \A i \in DOMAIN post : t - post[i].t <= WINDOW
        /\ \E X \in cands : post = SelectSeq(X, InWindow)

\* C1: right after the prune of a RollingAverageOhmmeter tick, values holds
\* exactly the previously held and just appended entries whose age at that
\* tick is at most 2 s: none older is kept, none younger is dropped.
C1_PruneKeepsExactlyTheWindow ==
    [][ Ticked(RollingAverageOhmmeter)'
          => ExactlyTheWindow(rolling.values, rolling'.values, now') ]_vars

\* a tick, 3 s or more into the run, that kept an entry of age exactly 2 s
\* (and so dropped the older ones) next to two younger ones
C1_Witness ==
    /\ Ticked(RollingAverageOhmmeter)
    /\ Len(rolling.values) = 3
    /\ rolling.values[1].t = now - WINDOW
    /\ now - simulator.start_time.n >= WINDOW + OHMMETER_INTERVAL

HasInf(values) == \E i \in DOMAIN values : values[i].v = Inf

\* C2: the value a RollingAverageOhmmeter tick reports is the sum of the
\* retained resistances divided by their count; it is +inf exactly when
\* nothing is retained or the mean itself is infinite; an empty sequence
\* never makes the tick divide by zero.
C2_ReportIsMeanOfRetained ==
    /\ Task(RollingAverageOhmmeter).result # "ZeroDivisionError"
    /\ Ticked(RollingAverageOhmmeter) =>
         LET n == Len(rolling.values)
         IN  /\ ev.line
             /\ (ev.val = Inf) <=> (n = 0 \/ HasInf(rolling.values))
             /\ (n > 0 /\ ~HasInf(rolling.values)) =>
                   /\ IsNum(ev.val)
                   /\ Mul(ev.val, Num(n)) = SumValues(rolling.values)

\* a tick that reported the mean of three different finite resistances
C2_Witness ==
    /\ Ticked(RollingAverageOhmmeter)
    /\ Len(rolling.values) = 3
    /\ ~HasInf(rolling.values)
    /\ rolling.values[1].v # rolling.values[2].v
    /\ rolling.values[2].v # rolling.values[3].v

\* C3 (as claimed): a RollingAverageOhmmeter tick appends an entry if and
\* only if the voltage or the current it reads differs from the pair it
\* recorded; on unchanged input it appends nothing and keeps the pair.
C3_AppendsIffChanged ==
    [][ Stepped(RollingAverageOhmmeter)'
          => LET differs == \/ rolling.voltage # voltmeter.last_value
                            \/ rolling.current # ammeter.last_value
             IN  /\ AppendedNow <=> differs
                 /\ ~differs => /\ rolling'.voltage = rolling.voltage
                                /\ rolling'.current = rolling.current ]_vars

CancelIssued == app.pc \in {"gathering", "returned"}

AllFinished == \A x \in Devices : Task(x).st = "finished"

\* C4: once run has cancelled the tasks no task performs another tick or
\* prints another line, and when run is over each of the four tasks is
\* finished (cancelled or ended by an exception), none pending.  Between
\* the cancel loop and the end of gather a task is pending only with its
\* cancellation requested.
C4_NoTickAfterCancel ==
    /\ CancelIssued => (ev.kind \notin {"tick", "raise"} /\ ~ev.line)
    /\ CancelIssued =>
         \A x \in Devices : Task(x).st = "finished" \/ Task(x).must_cancel
    /\ app.pc = "returned" =>
         /\ AllFinished
         /\ \A x \in Devices : Task(x).result # "" /\ ~Task(x).must_cancel

\* run is over and every task ended by the cancellation
C4_Witness ==
    /\ app.pc = "returned"
    /\ \A x \in Devices : Task(x).result = "CancelledError"

\* C5: run eventually returns, only after all four tasks are finished, and
\* it returns normally: no CancelledError and no exception of a task is
\* raised to its caller.
C5_RunReturnsNormally ==
    /\ <>(app.pc = "returned")
    /\ [](app.pc = "returned" => (AllFinished /\ app.raised = ""))

\* run returned although a task had ended with an exception of its own
C5_Witness ==
    /\ app.pc = "returned"
    /\ app.raised = ""
    /\ \E x \in Devices : Task(x).result \in {"TypeError", "ZeroDivisionError"}
    /\ \E x \in Devices : Task(x).result = "CancelledError"

\* C6 (as claimed): get_values raises for no time whose elapsed time is in
\* [0, duration], the instant elapsed = duration (R2 = 0) included.
C6_GetValuesNeverRaises ==
    (simulator.start_time # None
       /\ now - simulator.start_time.n \in 0..simulator.duration)
      => get_values(simulator, now).exc = ""

\* C7 (as claimed): an estimator tick that finds the voltage or the current
\* not yet observed does not fail and computes nothing: the Ohmmeter prints
\* nothing, the RollingAverageOhmmeter appends nothing and reports +inf.
C7_AwaitingFirstReadings ==
    /\ (Stepped(Ohmmeter) /\ (ohmmeter.voltage = None \/ ohmmeter.current = None))
         => (ev.kind = "tick" /\ ~ev.line)
    /\ (Stepped(RollingAverageOhmmeter)
          /\ (voltmeter.last_value = None \/ ammeter.last_value = None))
         => (ev.kind = "tick" /\ rolling.values = <<>> /\ ev.val = Inf)

\* C8 (as claimed): no tick ends a task's loop: until run cancels them all
\* four tasks are pending, whatever their ticks did.
C8_TasksRunUntilCancelled ==
    app.pc = "sleeping" =>
       /\ ev.kind # "raise"
       /\ \A x \in Devices : Task(x).st = "pending"

\* C9: an Ohmmeter tick prints a resistance if and only if both its voltage
\* and its current have been set; with either unset it prints nothing,
\* leaves the Ohmmeter as it is and sleeps for its interval.
C9_OhmmeterEmitsIffBothSet ==
    /\ [](Stepped(Ohmmeter) =>
            /\ ev.kind = "tick"
            /\ ev.line <=> (ohmmeter.voltage # None /\ ohmmeter.current # None))
    /\ [][ (Stepped(Ohmmeter)'
              /\ (ohmmeter.voltage = None \/ ohmmeter.current = None))
             => /\ ohmmeter' = ohmmeter
                /\ Task(Ohmmeter)' =
                     [Task(Ohmmeter) EXCEPT !.wake = now + OHMMETER_INTERVAL] ]_vars

\* an Ohmmeter tick with the voltage set and the current not: nothing printed
C9_Witness ==
    /\ Ticked(Ohmmeter)
    /\ ~ev.line
    /\ ohmmeter.voltage # None
    /\ ohmmeter.current = None
    /\ ohmmeter.last_timestamp = None

\* voltage / current as the claim states it
Quotient(V, I) == IF IsZero(I) THEN Inf ELSE Round(Div(V, I))

\* C10: a resistance computed from a current of exactly 0 is +inf, whatever
\* the voltage, and raises nothing; from any other current it is
\* voltage / current; in Ohmmeter.start and RollingAverageOhmmeter.start.
C10_ZeroCurrentGivesInf ==
    /\ \A V \in {Num(0), Num(VS_DEFAULT), Rat(-1, 3), Inf, None} :
          resistance(V, Num(0)) = [exc |-> "", R |-> Inf]
    /\ (Stepped(Ohmmeter) /\ IsZero(ohmmeter.current) /\ ohmmeter.voltage # None)
          => (ev.kind = "tick" /\ ev.line)
    /\ (Stepped(Ohmmeter) /\ ev.line)
          => ev.val = Quotient(ohmmeter.voltage, ohmmeter.current)
    /\ (Stepped(RollingAverageOhmmeter) /\ IsZero(ammeter.last_value))
          => ev.kind = "tick"
    /\ (Ticked(RollingAverageOhmmeter) /\ rolling.values # <<>>
          /\ Last(rolling.values).t = now)
          => Last(rolling.values).v = Quotient(rolling.voltage, rolling.current)

\* both estimators have computed +inf from a current of 0 (and a voltage of 0)
C10_Witness ==
    /\ Ticked(RollingAverageOhmmeter)
    /\ IsZero(rolling.current)
    /\ IsZero(rolling.voltage)
    /\ rolling.values # <<>>
    /\ Last(rolling.values) = [v |-> Inf, t |-> now]
    /\ IsZero(ohmmeter.current)
    /\ ohmmeter.last_timestamp # None

\* the time elapsed since CircuitSimulator.start, when it has been called
Elapsed == now - simulator.start_time.n

\* r lies e/d of the way from a to b, stated as a proportion
Interpolated(r, a, b, e, d) ==
    /\ IsNum(r)
    /\ Mul(Sub(r, Num(a)), Num(d)) = Num((b - a) * e)

\* C11: for an elapsed time e in [0, duration] get_resistance returns
\* R1 = R1_start + (R1_end - R1_start) * e / duration and the same for R2;
\* at e = 0 exactly the start values, at e = duration exactly the end values.
C11_ResistanceIsInterpolated ==
    (simulator.start_time # None /\ Elapsed \in 0..simulator.duration) =>
       LET r == get_resistance(simulator, now)
           s == simulator
       IN  /\ Interpolated(r.R1, s.R1_start, s.R1_end, Elapsed, s.duration)
           /\ Interpolated(r.R2, s.R2_start, s.R2_end, Elapsed, s.duration)
           /\ Elapsed = 0 =>
                 (r.R1 = Num(s.R1_start) /\ r.R2 = Num(s.R2_start))
           /\ Elapsed = s.duration =>
                 (r.R1 = Num(s.R1_end) /\ r.R2 = Num(s.R2_end))

\* the Voltmeter read the simulator at elapsed = duration, where R1 has
\* reached an R1_end different from R1_start
C11_Witness ==
    /\ Stepped(Voltmeter)
    /\ simulator.start_time # None
    /\ Elapsed = simulator.duration
    /\ simulator.R1_end # simulator.R1_start
    /\ get_resistance(simulator, now).R1 = Num(simulator.R1_end)

\* the pair is the no-sample sentinel, or both halves come from the one
\* reading of the simulator taken at the pair's timestamp
OneReading(pair, field) ==
    \/ pair = <<None, None>>
    \/ /\ pair[1] # None /\ IsNum(pair[2])
       /\ pair[2].d = 1 /\ pair[2].n <= now
       /\ simulator.start_time # None
       /\ get_values(simulator, pair[2].n).exc = ""
       /\ pair[1] = get_values(simulator, pair[2].n)[field]

\* C12: get_last_value of a Voltmeter or an Ammeter returns (None, None)
\* before the sampler's first tick and after a tick the (value, timestamp)
\* of its most recent tick; wherever another task can observe it the two
\* are both unset or both from the same single reading.
C12_LastValueIsOneReading ==
    /\ get_last_value(voltmeter) = <<None, None>>
    /\ get_last_value(ammeter) = <<None, None>>
    /\ [](OneReading(get_last_value(voltmeter), "V")
           /\ OneReading(get_last_value(ammeter), "IL"))
    /\ [][ /\ IF Ticked(Voltmeter)'
              THEN get_last_value(voltmeter)' =
                     <<get_values(simulator, now).V, Num(now)>>
              ELSE get_last_value(voltmeter)' = get_last_value(voltmeter)
           /\ IF Ticked(Ammeter)'
              THEN get_last_value(ammeter)' =
                     <<get_values(simulator, now).IL, Num(now)>>
              ELSE get_last_value(ammeter)' = get_last_value(ammeter) ]_vars

\* the RollingAverageOhmmeter reads a pair the Voltmeter stored at this
\* instant and a pair the Ammeter stored at an earlier one
C12_Witness ==
    /\ Ticked(RollingAverageOhmmeter)
    /\ get_last_value(voltmeter)[2] = Num(now)
    /\ get_last_value(ammeter)[2] # None
    /\ get_last_value(ammeter)[2].n < now
    /\ get_last_value(ammeter)[1] # None

\* C13: with R1 = 0 and R2 # 0 (the default simulator at elapsed 0)
\* get_values returns I = VS / RL and V = VS exactly, 10/30000 A and 10 V
\* by default; whenever it returns, I * (R1 + RL + R1 * RL / R2) = VS and
\* V = I * RL.
C13_ValuesSolveTheCircuit ==
    /\ LET v == get_values(start(DefaultSimulator), now)
       IN  v = [exc |-> "", V |-> Num(VS_DEFAULT),
                IL |-> Rat(VS_DEFAULT, RL_DEFAULT)]
    /\ (simulator.start_time # None /\ Elapsed \in 0..simulator.duration) =>
         LET r == get_resistance(simulator, now)
             v == get_values(simulator, now)
             RLv == Num(simulator.RL)
         IN  /\ (IsZero(r.R1) /\ ~IsZero(r.R2)) =>
                   /\ v.exc = ""
                   /\ v.IL = Rat(simulator.VS, simulator.RL)
                   /\ v.V = Num(simulator.VS)
             /\ v.exc = "" =>
                   /\ Mul(v.IL, Add(Add(r.R1, RLv),
                                    Div(Mul(r.R1, RLv), r.R2)))
                        = Num(simulator.VS)
                   /\ v.V = Mul(v.IL, RLv)

\* both samplers have read the default simulator at elapsed 0, then the
\* Voltmeter has read it again with R1 > 0 and a voltage below VS
C13_Witness ==
    /\ Ticked(Voltmeter)
    /\ simulator = [DefaultSimulator EXCEPT
                       !.start_time = Num(now - VOLTMETER_INTERVAL)]
    /\ ammeter.last_timestamp = Num(now - VOLTMETER_INTERVAL)
    /\ ammeter.last_value = Rat(VS_DEFAULT, RL_DEFAULT)
    /\ IsNum(voltmeter.last_value)
    /\ voltmeter.last_value # Num(VS_DEFAULT)
    /\ ~IsZero(get_resistance(simulator, now).R1)

\* C14: a sampler tick stores its reading and forwards it in one step: at
\* every yield point, the moment of cancellation included, the Ohmmeter's
\* voltage is the Voltmeter's last_value and its current the Ammeter's
\* last_value; no task sees a sample stored and not yet forwarded.
C14_StoredIsForwarded ==
    /\ ohmmeter.voltage = voltmeter.last_value
    /\ ohmmeter.current = ammeter.last_value

\* the Ammeter is cancelled in its sleep with both readings forwarded
C14_Witness ==
    /\ ev = Event(Ammeter, "cancelled", FALSE, None)
    /\ IsNum(ammeter.last_value)
    /\ ohmmeter.current = ammeter.last_value
    /\ IsNum(voltmeter.last_value)
    /\ ohmmeter.voltage = voltmeter.last_value

\* C15: start_time is set before any task takes a reading and is set
\* exactly once: CircuitSimulator.start precedes the first get_values of
\* any sampler, and afterwards no step of any task changes start_time or
\* any other field of the CircuitSimulator.
C15_StartedOnceBeforeReadings ==
    /\ []((\E x \in Devices : Task(x).st # "none" \/ Stepped(x))
            => simulator.start_time # None)
    /\ [](Task(Voltmeter).result # "TypeError"
           /\ Task(Ammeter).result # "TypeError")
    /\ [][ simulator' # simulator =>
             /\ ev'.kind = "start"
             /\ simulator.start_time = None
             /\ simulator' = [simulator EXCEPT !.start_time = Num(now)] ]_vars

\* run is over after many readings, the simulator as start left it
C15_Witness ==
    /\ app.pc = "returned"
    /\ simulator = [DefaultSimulator EXCEPT !.start_time = Num(now - RUN_SLEEP)]
    /\ voltmeter.last_timestamp # None
    /\ voltmeter.last_timestamp.n > simulator.start_time.n
    /\ ammeter.last_timestamp # None

\* values a caller may hand to a setter: nothing in it checks them
SetterValues == {None, Inf, Num(0), Num(VS_DEFAULT), Rat(-1, 3)}

\* after differs from before in the one field f, which holds v
OnlyFieldSet(before, after, f, v) ==
    /\ DOMAIN after = DOMAIN before
    /\ after[f] = v
    /\ \A g \in DOMAIN before \ {f} : after[g] = before[g]

\* C16: set_voltage(v) makes the estimator's voltage v and changes nothing
\* else (current, last_timestamp, the retained sequence of the rolling
\* variant); set_current(i) likewise changes only current; both take any
\* value without failing, and after a sequence of calls each field holds
\* the value of the last call made for it.
C16_SettersSetOneField ==
    /\ [](\A self \in {ohmmeter, rolling} : \A a, b, c \in SetterValues :
            /\ OnlyFieldSet(self, set_voltage(self, a), "voltage", a)
            /\ OnlyFieldSet(self, set_current(self, a), "current", a)
            /\ LET last == set_voltage(set_current(set_voltage(self, a), b), c)
               IN  /\ OnlyFieldSet(set_current(self, b), last, "voltage", c)
                   /\ last.current = b)
    /\ [][ /\ Ticked(Voltmeter)' =>
                OnlyFieldSet(ohmmeter, ohmmeter', "voltage", ev'.val)
           /\ Ticked(Ammeter)' =>
                OnlyFieldSet(ohmmeter, ohmmeter', "current", ev'.val) ]_vars

\* a Voltmeter tick overwrote an earlier voltage of an Ohmmeter whose
\* other two fields were set
C16_Witness ==
    /\ Ticked(Voltmeter)
    /\ ohmmeter.voltage = ev.val
    /\ ohmmeter.voltage # Num(VS_DEFAULT)
    /\ ohmmeter.current # None
    /\ ohmmeter.last_timestamp # None
    /\ ohmmeter.last_timestamp.n < now

\* the Ohmmeter holds a voltage and a current
Reporting == ohmmeter.voltage # None /\ ohmmeter.current # None

\* C17: once both the voltage and the current of the Ohmmeter have been
\* set neither becomes unset again, so every later Ohmmeter tick until
\* cancellation computes and prints a resistance: the Ohmmeter's task
\* ends by cancellation only.
C17_ReportingIsAbsorbing ==
    /\ [][Reporting => Reporting']_vars
    /\ []((Stepped(Ohmmeter) /\ Reporting)
            => (ev.kind = "tick" /\ ev.line /\ ev.val # None
                /\ ohmmeter.last_timestamp = Num(now)))
    /\ [](Task(Ohmmeter).result \in {"", "CancelledError"})
    /\ []((Reporting /\ ~CancelIssued) => Task(Ohmmeter).st = "pending")

\* the Ohmmeter's tick at the end of the run, after ten that printed
C17_Witness ==
    /\ Ticked(Ohmmeter)
    /\ ev.line
    /\ Reporting
    /\ simulator.start_time # None
    /\ Elapsed = RUN_SLEEP
    /\ ~CancelIssued

\* the fields RollingAverageOhmmeter.start reads and writes of itself
Recorded(self) == <<self.voltage, self.current, self.values>>

\* C18: sampler ticks never modify the RollingAverageOhmmeter: its recorded
\* voltage, recorded current and retained sequence change only in its own
\* tick, which takes its inputs from get_last_value of the two samplers
\* and from nowhere else.
C18_RollingChangesOnlyInItsTick ==
    [][ /\ rolling' # rolling => Ticked(RollingAverageOhmmeter)'
        /\ (Ticked(RollingAverageOhmmeter)' /\ Recorded(rolling') # Recorded(rolling))
             => /\ rolling'.voltage = get_last_value(voltmeter)[1]
                /\ rolling'.current = get_last_value(ammeter)[1]
        /\ (Ticked(RollingAverageOhmmeter)' /\ AppendedNow)
             => Last(rolling'.values).v =
                  Quotient(get_last_value(voltmeter)[1],
                           get_last_value(ammeter)[1]) ]_vars

\* a Voltmeter tick has forwarded a voltage the RollingAverageOhmmeter has
\* not recorded: what it holds is still what its own last tick pulled
C18_Witness ==
    /\ Ticked(Voltmeter)
    /\ rolling.values # <<>>
    /\ IsNum(rolling.voltage)
    /\ rolling.voltage # voltmeter.last_value
    /\ ohmmeter.voltage = voltmeter.last_value
    /\ Last(rolling.values).t < now

\* the entries a window of WINDOW can hold when one is added every
\* OHMMETER_INTERVAL: those of age 0, 1 s and 2 s
MaxRetained == WINDOW \div OHMMETER_INTERVAL + 1

\* timestamps never decrease along the sequence
InTimeOrder(values) ==
    \A i, j \in DOMAIN values : i < j => values[i].t <= values[j].t

\* C19: the retained sequence of the RollingAverageOhmmeter stays bounded:
\* a tick adds at most one entry and every tick prunes, so with the 1 s
\* interval and the 2 s window it never holds more than 3 entries at a
\* yield point, and its entries are in non-decreasing timestamp order.
C19_RetainedIsBoundedAndOrdered ==
    /\ [](/\ Len(rolling.values) <= MaxRetained
           /\ InTimeOrder(rolling.values)
           /\ \A i \in DOMAIN rolling.values : rolling.values[i].t <= now)
    /\ [][ /\ Len(rolling'.values) <= Len(rolling.values) + 1
           /\ Ticked(RollingAverageOhmmeter)' =>
                \A i \in DOMAIN rolling'.values :
                   now' - rolling'.values[i].t <= WINDOW ]_vars

\* another task runs while the sequence holds three entries, each a
\* second after the one before
C19_Witness ==
    /\ Ticked(Ammeter)
    /\ Len(rolling.values) = MaxRetained
    /\ \A i \in 1..(MaxRetained - 1) :
          rolling.values[i + 1].t = rolling.values[i].t + OHMMETER_INTERVAL
    /\ Last(rolling.values).t < now

\* the samplers' latest values are the pair the RollingAverageOhmmeter holds
SameReadings ==
    /\ rolling.voltage = voltmeter.last_value
    /\ rolling.current = ammeter.last_value

\* the simulator's R1 stays 0, so every reading is V = VS and I = VS / RL
ConstantReadings ==
    simulator.R1_end = simulator.R1_start /\ simulator.R1_start = 0

\* C20: the RollingAverageOhmmeter detects a change by value, not by the
\* sample's timestamp: a tick that finds the voltage and the current it
\* recorded appends nothing, however often the samplers have ticked, and
\* from the first tick more than 2 s after its last append on it reports
\* +inf (nothing retained) for as long as the readings stay the same.
C20_UnchangedReadingsAgeOut ==
    /\ [][ (Stepped(RollingAverageOhmmeter)' /\ SameReadings) =>
             /\ ev'.kind = "tick"
             /\ ~AppendedNow
             /\ Len(rolling'.values) <= Len(rolling.values)
             /\ rolling'.voltage = rolling.voltage
             /\ rolling'.current = rolling.current
             /\ (rolling.values = <<>>
                   \/ now' - Last(rolling.values).t > WINDOW)
                  => (rolling'.values = <<>> /\ ev'.val = Inf) ]_vars
    /\ []((ConstantReadings /\ Ticked(RollingAverageOhmmeter)
            /\ Elapsed > OHMMETER_INTERVAL + WINDOW)
           => (SameReadings /\ rolling.values = <<>> /\ ev.val = Inf))

\* the samplers have just ticked again with the values recorded 3 s ago,
\* one finite entry has aged out and the tick reports +inf
C20_Witness ==
    /\ Ticked(RollingAverageOhmmeter)
    /\ ConstantReadings
    /\ Elapsed = OHMMETER_INTERVAL + WINDOW
    /\ SameReadings
    /\ IsNum(rolling.voltage) /\ ~IsZero(rolling.current)
    /\ voltmeter.last_timestamp = Num(now)
    /\ ammeter.last_timestamp = Num(now)
    /\ rolling.values = <<>>
    /\ ev.val = Inf

====
